---- MODULE Spec2Model ----
(***************************************************************************)
(* Model of the image pipeline of madamroger007/img-compression.           *)
(*                                                                         *)
(* Spec      : the admission gate of lib/removeBackground.ts               *)
(*             (removeBackgroundLocal) under concurrent direct calls.      *)
(* SpecRoute : the same function behind the remove-background route.       *)
(* SpecHttp  : the stateless handlers (compress, convert-to-png, duplicate) *)
(*             and the library function duplicateImage, one request each.  *)
(*                                                                         *)
(* JavaScript runs every synchronous stretch of an async function to       *)
(* completion, so each action is the code between two awaits.              *)
(***************************************************************************)
EXTENDS Integers, Sequences, FiniteSets, TLC

\* ------------------------------------------------------------------ bounds
NumCalls == 3

Procs == 1..NumCalls

\* ------------------------------------------------------- program constants
MAX_CONCURRENT_REMOVALS == 2

DEFAULT_MAX_SIZE == 15 * 1024 * 1024

\* Buffer lengths handed to the code.  NullBuf stands for null / undefined.
NullBuf == -1

BigLen == DEFAULT_MAX_SIZE + 1

LibBuffers == {NullBuf, 0, 1}

RouteSizes == {0, DEFAULT_MAX_SIZE, BigLen}

ALLOWED_MIME_TYPES == {"image/png", "image/jpeg", "image/jpg", "image/webp"}

\* Media types a client may declare ("" is a part without a type).
ClientMimes == {"image/png", "IMAGE/PNG", "image/avif", ""}

\* String.prototype.toLowerCase on the declared types above.
ToLowerCase(m) == IF m = "IMAGE/PNG" THEN "image/png" ELSE m

\* ------------------------------------------------------------------ errors
NoErr == [type |-> "none", message |-> "none"]

BusyMessage == "Server is busy processing other background removals. Please try again shortly."

EmptyMessage == "Uploaded file is empty or unreadable."

NoFileMessage == "No file field named 'file' was provided."

BadFormatMessage == "Unsupported file format. Please upload PNG, JPG, JPEG, or WebP."

UnknownRemovalMessage == "Unknown background removal error"

UnknownServerMessage == "Unknown server error"

BGError(m) == [type |-> "BGError", message |-> m]

\* What a collaborator (sharp, the segmentation library, Blob) may throw:
\* an Error carrying a message, or a value without a message property.
NoMessage == "undefined"

SharpError == [type |-> "Error", message |-> "sharp: unsupported image format"]

SegmentationError == [type |-> "Error", message |-> "segmentation: model unavailable"]

BareThrow == [type |-> "Object", message |-> NoMessage]

FormDataError == [type |-> "TypeError", message |-> "Failed to parse body as FormData."]

Max(a, b) == IF a >= b THEN a ELSE b

Min(a, b) == IF a <= b THEN a ELSE b


\* ------------------------------------------------------------------- state
VARIABLES
  activeRemovals,  \* the module-level counter of lib/removeBackground.ts
  pc,              \* per invocation: the await it is suspended at
  origin,          \* "lib": removeBackgroundLocal called directly; "route": via POST
  mimeType,        \* route: the lower-cased declared type kept by readFileFromRequest
  buf,             \* length of the buffer given to the invocation (NullBuf: null)
  err,             \* the error the invocation ended with (NoErr: none)
  cause,           \* the value thrown inside removeBackgroundLocal (NoErr: none)
  returned,        \* removeBackgroundLocal returned outputBuffer
  status,          \* route: HTTP status of the response (0: no response)
  incs,            \* per invocation: executions of activeRemovals++
  decs,            \* per invocation: executions of the finally block
  segCalls,        \* per invocation: calls of removeBackground (the segmentation)
  readInput,       \* per invocation: inputBuffer?.length was evaluated
  lastGate         \* what last happened at the gate: "freed" a release that found it
                   \* full, then "refill" / "refused" the next call admitted / rejected

VARIABLES
  req,             \* stateless endpoints: the request (or library call) handled
  resp             \* stateless endpoints: what the handler answered

VARIABLES
  state,           \* generator page: AppState
  files,           \* generator page: number of uploaded files
  showScan,        \* generator page: the scan overlay is shown
  error,           \* generator page: the error message (Null: none)
  pageResults,     \* generator page: number of results shown
  timer,           \* files of a selection waiting for its 300 ms timer (NoTimer: none)
  gen,             \* the run of handleGenerate: "none", or "fetch" while it awaits
  hasFiles,        \* hasFiles as captured by the running handleGenerate
  outcome,         \* how the last awaited request settled
  runs,            \* runs of handleGenerate started
  sent             \* requests sent by handleGenerate

httpVars == <<req, resp>>

pageVars == <<state, files, showScan, error, pageResults, timer, gen, hasFiles,
              outcome, runs, sent>>

gateVars == <<activeRemovals, pc, origin, mimeType, buf, err, cause, returned, status,
              incs, decs, segCalls, readInput, lastGate>>

Stages == {"metadata", "preprocess", "segment", "blob", "alpha", "encode"}

\* Variant of the pipeline that segments the upload as it came.
NextStage_SkipsPreprocess(s) ==
  CASE s = "metadata"   -> "segment"
    [] s = "preprocess" -> "segment"
    [] s = "segment"    -> "blob"
    [] s = "blob"       -> "alpha"
    [] s = "alpha"      -> "encode"
    [] OTHER            -> "done"

\* The await that follows the await s in removeBackgroundLocal.
NextStage(s) ==
  CASE s = "metadata"   -> "preprocess"
    [] s = "preprocess" -> "segment"
    [] s = "segment"    -> "blob"
    [] s = "blob"       -> "alpha"
    [] s = "alpha"      -> "encode"
    [] OTHER            -> "done"

\* What the awaited call of each stage can reject with.
Throws(s) ==
  IF s \in {"segment", "blob"} THEN {SegmentationError, BareThrow}
                               ELSE {SharpError, BareThrow}

\* Variant without a capacity check.
GateFull_Never(n) == FALSE

\* Variants of the capacity check: one slot too many, one slot too few.
GateFull_OffByOne(n) == n > MAX_CONCURRENT_REMOVALS

GateFull_TooEarly(n) == n >= MAX_CONCURRENT_REMOVALS - 1

\* if (activeRemovals >= MAX_CONCURRENT_REMOVALS)
GateFull(n) == n >= MAX_CONCURRENT_REMOVALS

\* Variant of the emptiness test that forgets null / undefined.
IsEmptyBuffer_LengthOnly(b) == b = 0

\* if (!inputBuffer?.length)
IsEmptyBuffer(b) == b = NullBuf \/ b = 0

\* Variants of the release: two slots at once, and a reset of the counter.
Release_Twice(n) == Max(0, n - 2)

Release_Resets(n) == 0

\* Variant of the release that forgets to subtract.
Release_Forgets(n) == Max(0, n)

\* activeRemovals = Math.max(0, activeRemovals - 1)
Release(n) == Max(0, n - 1)

\* lastGate after a release that found the counter at n.
AfterRelease(n) == IF n >= MAX_CONCURRENT_REMOVALS THEN "freed" ELSE "other"

\* Variant of the catch block that rethrows what it caught.
Wrap_Rethrows(e) == e

\* catch (err) { ... throw new BGError(message) }
Wrap(e) ==
  BGError(IF e.type = "BGError" THEN e.message
          ELSE IF e.message # NoMessage THEN e.message
          ELSE UnknownRemovalMessage)

\* remove-background POST: the status of the response for the outcome e.  The
\* continuation of POST after removeBackgroundLocal settles touches no shared
\* state, so the response is recorded in the step that settles the call.
StatusFor(o, e) ==
  IF o # "route" THEN 0
  ELSE IF e = NoErr THEN 200
  ELSE IF e.type = "BGError" THEN 400
  ELSE 500

\* remove-background POST: the message of the error response.
RouteMessage(e) ==
  IF e.type = "BGError" THEN e.message
  ELSE IF e.message # NoMessage THEN e.message
  ELSE UnknownServerMessage

\* Variant of readFileFromRequest that leaves the empty file to the library.
ReadFileError_NoEmptyCheck(parseOk, hasFile, mime, size) ==
  IF ~parseOk THEN FormDataError
  ELSE IF ~hasFile THEN BGError(NoFileMessage)
  ELSE IF ToLowerCase(mime) \notin ALLOWED_MIME_TYPES THEN BGError(BadFormatMessage)
  ELSE NoErr

\* readFileFromRequest: the error it throws, NoErr when it returns the file.
ReadFileError(parseOk, hasFile, mime, size) ==
  IF ~parseOk THEN FormDataError
  ELSE IF ~hasFile THEN BGError(NoFileMessage)
  ELSE IF ToLowerCase(mime) \notin ALLOWED_MIME_TYPES THEN BGError(BadFormatMessage)
  ELSE IF size = 0 THEN BGError(EmptyMessage)
  ELSE NoErr

GateInit ==
  /\ activeRemovals = 0
  /\ pc = [p \in Procs |-> "idle"]
  /\ origin = [p \in Procs |-> "none"]
  /\ mimeType = [p \in Procs |-> "none"]
  /\ buf = [p \in Procs |-> NullBuf]
  /\ err = [p \in Procs |-> NoErr]
  /\ cause = [p \in Procs |-> NoErr]
  /\ returned = [p \in Procs |-> FALSE]
  /\ status = [p \in Procs |-> 0]
  /\ incs = [p \in Procs |-> 0]
  /\ decs = [p \in Procs |-> 0]
  /\ segCalls = [p \in Procs |-> 0]
  /\ readInput = [p \in Procs |-> FALSE]
  /\ lastGate = "other"

\* Variant of Invoke that counts the caller before the capacity check, so a
\* rejected call leaves the counter raised.
Invoke_CountsRejected(p, o, b) ==
  /\ origin' = [origin EXCEPT ![p] = o]
  /\ buf' = [buf EXCEPT ![p] = b]
  /\ UNCHANGED <<returned, segCalls, mimeType>>
  /\ incs' = [incs EXCEPT ![p] = @ + 1]
  /\ IF GateFull(activeRemovals)
     THEN /\ activeRemovals' = activeRemovals + 1
          /\ err' = [err EXCEPT ![p] = BGError(BusyMessage)]
          /\ cause' = [cause EXCEPT ![p] = BGError(BusyMessage)]
          /\ status' = [status EXCEPT ![p] = StatusFor(o, BGError(BusyMessage))]
          /\ pc' = [pc EXCEPT ![p] = "done"]
          /\ lastGate' = IF lastGate = "freed" THEN "refused" ELSE lastGate
          /\ UNCHANGED <<decs, readInput>>
     ELSE IF IsEmptyBuffer(b)
     THEN /\ activeRemovals' = Release(activeRemovals + 1)
          /\ decs' = [decs EXCEPT ![p] = @ + 1]
          /\ readInput' = [readInput EXCEPT ![p] = TRUE]
          /\ err' = [err EXCEPT ![p] = Wrap(BGError(EmptyMessage))]
          /\ cause' = [cause EXCEPT ![p] = BGError(EmptyMessage)]
          /\ status' = [status EXCEPT ![p] = StatusFor(o, Wrap(BGError(EmptyMessage)))]
          /\ pc' = [pc EXCEPT ![p] = "done"]
          /\ lastGate' = AfterRelease(activeRemovals + 1)
     ELSE /\ activeRemovals' = activeRemovals + 1
          /\ readInput' = [readInput EXCEPT ![p] = TRUE]
          /\ pc' = [pc EXCEPT ![p] = "metadata"]
          /\ lastGate' = IF lastGate = "freed" THEN "refill" ELSE "other"
          /\ UNCHANGED <<decs, err, cause, status>>

\* removeBackgroundLocal(b) up to its first await (or its synchronous throw).
Invoke(p, o, b) ==
  /\ origin' = [origin EXCEPT ![p] = o]
  /\ buf' = [buf EXCEPT ![p] = b]
  /\ UNCHANGED <<returned, segCalls, mimeType>>
  /\ IF GateFull(activeRemovals)
     THEN /\ err' = [err EXCEPT ![p] = BGError(BusyMessage)]
          /\ cause' = [cause EXCEPT ![p] = BGError(BusyMessage)]
          /\ status' = [status EXCEPT ![p] = StatusFor(o, BGError(BusyMessage))]
          /\ pc' = [pc EXCEPT ![p] = "done"]
          /\ lastGate' = IF lastGate = "freed" THEN "refused" ELSE lastGate
          /\ UNCHANGED <<activeRemovals, incs, decs, readInput>>
     ELSE IF IsEmptyBuffer(b)
     THEN /\ activeRemovals' = Release(activeRemovals + 1)
          /\ incs' = [incs EXCEPT ![p] = @ + 1]
          /\ decs' = [decs EXCEPT ![p] = @ + 1]
          /\ readInput' = [readInput EXCEPT ![p] = TRUE]
          /\ err' = [err EXCEPT ![p] = Wrap(BGError(EmptyMessage))]
          /\ cause' = [cause EXCEPT ![p] = BGError(EmptyMessage)]
          /\ status' = [status EXCEPT ![p] = StatusFor(o, Wrap(BGError(EmptyMessage)))]
          /\ pc' = [pc EXCEPT ![p] = "done"]
          /\ lastGate' = AfterRelease(activeRemovals + 1)
     ELSE /\ activeRemovals' = activeRemovals + 1
          /\ incs' = [incs EXCEPT ![p] = @ + 1]
          /\ readInput' = [readInput EXCEPT ![p] = TRUE]
          /\ pc' = [pc EXCEPT ![p] = "metadata"]
          /\ lastGate' = IF lastGate = "freed" THEN "refill" ELSE "other"
          /\ UNCHANGED <<decs, err, cause, status>>

\* A direct call of the library function (as the tests make it).
LibCall(p) ==
  /\ pc[p] = "idle"
  /\ \E b \in LibBuffers : Invoke(p, "lib", b)
  /\ UNCHANGED <<httpVars, pageVars>>

\* POST remove-background: readFileFromRequest, and the catch of POST when it throws.
RouteRead(p) ==
  /\ pc[p] = "idle"
  /\ \E parseOk \in BOOLEAN, hasFile \in BOOLEAN, mime \in ClientMimes, size \in RouteSizes :
       LET e == ReadFileError(parseOk, hasFile, mime, size) IN
       /\ origin' = [origin EXCEPT ![p] = "route"]
       /\ IF e # NoErr
          THEN /\ err' = [err EXCEPT ![p] = e]
               /\ status' = [status EXCEPT ![p] = StatusFor("route", e)]
               /\ pc' = [pc EXCEPT ![p] = "done"]
               /\ UNCHANGED <<buf, mimeType>>
          ELSE /\ buf' = [buf EXCEPT ![p] = size]
               /\ mimeType' = [mimeType EXCEPT ![p] = ToLowerCase(mime)]
               /\ pc' = [pc EXCEPT ![p] = "read"]
               /\ UNCHANGED <<err, status>>
  /\ UNCHANGED <<activeRemovals, cause, returned, incs, decs, segCalls, readInput, lastGate>>
  /\ UNCHANGED <<httpVars, pageVars>>

\* POST remove-background resumed with the file: the second type check, then
\* removeBackgroundLocal(inputBuffer) up to its first await.
RouteCall(p) ==
  /\ pc[p] = "read"
  /\ IF mimeType[p] \notin ALLOWED_MIME_TYPES
     THEN /\ err' = [err EXCEPT ![p] = BGError(BadFormatMessage)]
          /\ status' = [status EXCEPT ![p] = 400]
          /\ pc' = [pc EXCEPT ![p] = "done"]
          /\ UNCHANGED <<activeRemovals, origin, mimeType, buf, cause, returned, incs, decs,
                         segCalls, readInput, lastGate>>
     ELSE Invoke(p, "route", buf[p])
  /\ UNCHANGED <<httpVars, pageVars>>

\* Variant of Succeed with the release in the catch block only: an
\* invocation that returns keeps its slot.
Succeed_ReleaseInCatchOnly(p) ==
  /\ pc[p] \in Stages
  /\ pc' = [pc EXCEPT ![p] = NextStage(pc[p])]
  /\ segCalls' = [segCalls EXCEPT ![p] = IF pc[p] = "preprocess" THEN @ + 1 ELSE @]
  /\ IF pc[p] = "encode"
     THEN /\ returned' = [returned EXCEPT ![p] = TRUE]
          /\ status' = [status EXCEPT ![p] = StatusFor(origin[p], NoErr)]
          /\ UNCHANGED <<activeRemovals, decs, lastGate>>
     ELSE UNCHANGED <<returned, status, activeRemovals, decs, lastGate>>
  /\ UNCHANGED <<origin, mimeType, buf, err, cause, incs, readInput>>
  /\ UNCHANGED <<httpVars, pageVars>>

\* Variant of Succeed that gives the slot back when the segmentation starts
\* instead of when the invocation ends.
Succeed_FreesSlotEarly(p) ==
  /\ pc[p] \in Stages
  /\ pc' = [pc EXCEPT ![p] = NextStage(pc[p])]
  /\ segCalls' = [segCalls EXCEPT ![p] = IF pc[p] = "preprocess" THEN @ + 1 ELSE @]
  /\ IF pc[p] = "encode"
     THEN /\ returned' = [returned EXCEPT ![p] = TRUE]
          /\ status' = [status EXCEPT ![p] = StatusFor(origin[p], NoErr)]
          /\ decs' = [decs EXCEPT ![p] = @ + 1]
          /\ UNCHANGED <<activeRemovals, lastGate>>
     ELSE IF pc[p] = "preprocess"
     THEN /\ activeRemovals' = Release(activeRemovals)
          /\ lastGate' = AfterRelease(activeRemovals)
          /\ UNCHANGED <<returned, status, decs>>
     ELSE UNCHANGED <<returned, status, activeRemovals, decs, lastGate>>
  /\ UNCHANGED <<origin, mimeType, buf, err, cause, incs, readInput>>
  /\ UNCHANGED <<httpVars, pageVars>>

\* The awaited call of the current stage resolved: run to the next await, or
\* return outputBuffer through the finally block.
Succeed(p) ==
  /\ pc[p] \in Stages
  /\ pc' = [pc EXCEPT ![p] = NextStage(pc[p])]
  /\ segCalls' = [segCalls EXCEPT ![p] = IF pc[p] = "preprocess" THEN @ + 1 ELSE @]
  /\ IF pc[p] = "encode"
     THEN /\ returned' = [returned EXCEPT ![p] = TRUE]
          /\ status' = [status EXCEPT ![p] = StatusFor(origin[p], NoErr)]
          /\ activeRemovals' = Release(activeRemovals)
          /\ decs' = [decs EXCEPT ![p] = @ + 1]
          /\ lastGate' = AfterRelease(activeRemovals)
     ELSE UNCHANGED <<returned, status, activeRemovals, decs, lastGate>>
  /\ UNCHANGED <<origin, mimeType, buf, err, cause, incs, readInput>>
  /\ UNCHANGED <<httpVars, pageVars>>

\* Variant of Throw in which the release sits at the end of the try block
\* instead of in finally, so a failing invocation keeps its slot.
Throw_NoFinally(p, e) ==
  /\ err' = [err EXCEPT ![p] = Wrap(e)]
  /\ cause' = [cause EXCEPT ![p] = e]
  /\ status' = [status EXCEPT ![p] = StatusFor(origin[p], Wrap(e))]
  /\ pc' = [pc EXCEPT ![p] = "done"]
  /\ UNCHANGED <<activeRemovals, decs, lastGate>>
  /\ UNCHANGED <<origin, mimeType, buf, returned, incs, segCalls, readInput>>

\* The awaited call of the current stage rejected with e: catch, then finally.
Throw(p, e) ==
  /\ err' = [err EXCEPT ![p] = Wrap(e)]
  /\ cause' = [cause EXCEPT ![p] = e]
  /\ status' = [status EXCEPT ![p] = StatusFor(origin[p], Wrap(e))]
  /\ pc' = [pc EXCEPT ![p] = "done"]
  /\ activeRemovals' = Release(activeRemovals)
  /\ decs' = [decs EXCEPT ![p] = @ + 1]
  /\ lastGate' = AfterRelease(activeRemovals)
  /\ UNCHANGED <<origin, mimeType, buf, returned, incs, segCalls, readInput>>

Fail(p) ==
  /\ pc[p] \in Stages
  /\ \E e \in Throws(pc[p]) : Throw(p, e)
  /\ UNCHANGED <<httpVars, pageVars>>

\* ------------------------------------------------------ stateless endpoints
\* Strings the code takes apart are sequences of one-character strings.
Str_upload == <<"u", "p", "l", "o", "a", "d">>

Str_copy == <<"-", "c", "o", "p", "y", "-">>

Str_png == <<"p", "n", "g">>

Str_webp == <<"w", "e", "b", "p">>

Str_jpg == <<"j", "p", "g">>

Str_zip == <<"i", "m", "a", "g", "e", "s", ".", "z", "i", "p">>

DigitChar(d) == <<"0", "1", "2", "3", "4", "5", "6", "7", "8", "9">>[d + 1]

RECURSIVE Decimal(_)
\* `${index}` for a non-negative integer.
Decimal(n) == IF n < 10 THEN <<DigitChar(n)>> ELSE Decimal(n \div 10) \o <<DigitChar(n % 10)>>

\* Characters kept by /[^a-zA-Z0-9.\-_]/g among those the model uses.
SafeChars == {"a", "b", "p", "u", "l", "o", "d", ".", "-", "_"}

\* sanitizeFilename
sanitizeFilename(name) == [i \in 1..Len(name) |-> IF name[i] \in SafeChars THEN name[i] ELSE "_"]

RECURSIVE SplitDot(_)
\* filename.split('.')
SplitDot(str) ==
  IF str = <<>> THEN << <<>> >>
  ELSE LET r == SplitDot(Tail(str)) IN
       IF Head(str) = "." THEN << <<>> >> \o r
       ELSE << <<Head(str)>> \o Head(r) >> \o Tail(r)

\* appendSuffix (the same text in lib/imageProcessor.ts and in the duplicate route)
appendSuffix(filename, index) ==
  LET parts  == SplitDot(filename)
      name   == Head(parts)
      rest   == Tail(parts)
      hasExt == rest # <<>> /\ rest[Len(rest)] # <<>>
      suffix == name \o Str_copy \o Decimal(index)
  IN IF hasExt THEN suffix \o <<".">> \o rest[Len(rest)] ELSE suffix

\* Stripping from the first dot on.
StripExtension_FirstDot(filename) ==
  LET dots == {i \in 1..Len(filename) : filename[i] = "."} IN
  IF dots = {} THEN filename
  ELSE SubSeq(filename, 1, (CHOOSE i \in dots : \A j \in dots : i <= j) - 1)

\* filename.replace(/\.[^/.]+$/, '')
StripExtension(filename) ==
  LET dots == {i \in 1..Len(filename) : filename[i] = "."} IN
  IF dots = {} THEN filename
  ELSE LET last == CHOOSE i \in dots : \A j \in dots : j <= i IN
       IF last = Len(filename) \/ \E j \in (last + 1)..Len(filename) : filename[j] = "/"
       THEN filename
       ELSE SubSeq(filename, 1, last - 1)

\* mimeToExtension
mimeToExtension(mime) ==
  CASE mime = "image/png"  -> Str_png
    [] mime = "image/webp" -> Str_webp
    [] OTHER               -> Str_jpg

\* deriveFilename
deriveFilename(filename, mime) == StripExtension(filename) \o <<".">> \o mimeToExtension(mime)

\* formatMime
formatMime(format) ==
  CASE format = "webp" -> "image/webp"
    [] format = "png"  -> "image/png"
    [] OTHER           -> "image/jpeg"

\* The supported types without image/heif.
SUPPORTED_MIME_NoHeif == {"image/jpeg", "image/png", "image/webp", "image/avif", "image/heic"}

SUPPORTED_MIME == {"image/jpeg", "image/png", "image/webp", "image/avif", "image/heic", "image/heif"}

UnsupportedError == [type |-> "Error", status |-> 0,
                     message |-> "Unsupported image format. Please upload jpeg, png, webp, avif, or heic."]

\* ensureSupportedMime: the error it throws, NoThrow when it returns.
NoThrow == [type |-> "none", status |-> 0, message |-> "none"]

ensureSupportedMime(mime) == IF mime \notin SUPPORTED_MIME THEN UnsupportedError ELSE NoThrow

\* Form fields read as numbers: absent, text that is not a number, or a number.
\* Numbers are carried in tenths (905 is 90.5, 15 is 1.5).
Absent == [kind |-> "absent", val |-> 0]

Text == [kind |-> "text", val |-> 0]

Num(n) == [kind |-> "num", val |-> n]

\* getNumberFromFormData: undefined is Absent.
getNumberFromFormData(field) == IF field.kind = "num" THEN field ELSE Absent

\* Rounding that drops the fraction.
MathRound_Floor(tenths) == tenths \div 10

\* Math.round of a number given in tenths.
MathRound(tenths) == (tenths + 5) \div 10

clamp(value, lo, hi) == Min(Max(value, lo), hi)

\* QUALITY_BY_PRESET[preset]; 0 is undefined, InheritedMember a member of
\* Object.prototype (preset "toString", "constructor", ...), which is truthy.
InheritedMember == -1

QUALITY_BY_PRESET(preset) ==
  CASE preset = "high"     -> 90
    [] preset = "medium"   -> 80
    [] preset = "low"      -> 65
    [] preset = "toString" -> InheritedMember
    [] OTHER               -> 0

\* resolveQuality(preset, quality); preset "" is undefined.
resolveQuality(preset, quality) ==
  IF quality.kind = "num" THEN clamp(MathRound(quality.val), 1, 100)
  ELSE IF preset # "" /\ QUALITY_BY_PRESET(preset) # 0 THEN QUALITY_BY_PRESET(preset)
  ELSE QUALITY_BY_PRESET("high")

\* A Buffer: its length and its bytes. The bytes of the two large uploads are
\* not listed (bytes is empty although length is not 0).
MaxBytes == 3

Bytes == {0, 77, 255}

Buffer(bytes) == [length |-> Len(bytes), bytes |-> bytes]

Buffers == {Buffer(b) : b \in UNION {[1..n -> Bytes] : n \in 0..MaxBytes}}

UnlistedBuffer(n) == [length |-> n, bytes |-> <<>>]

\* The base64 alphabet of Buffer.prototype.toString('base64').
Base64Chars ==
  <<"A", "B", "C", "D", "E", "F", "G", "H", "I", "J", "K", "L", "M",
    "N", "O", "P", "Q", "R", "S", "T", "U", "V", "W", "X", "Y", "Z",
    "a", "b", "c", "d", "e", "f", "g", "h", "i", "j", "k", "l", "m",
    "n", "o", "p", "q", "r", "s", "t", "u", "v", "w", "x", "y", "z",
    "0", "1", "2", "3", "4", "5", "6", "7", "8", "9", "+", "/">>

\* One group of the encoding made of the low bits alone.
EncodeGroup_LowBitsOnly(g) ==
  LET n == g[1] * 65536 + (IF Len(g) >= 2 THEN g[2] ELSE 0) * 256
             + (IF Len(g) >= 3 THEN g[3] ELSE 0)
  IN <<Base64Chars[(n % 64) + 1], Base64Chars[(n % 64) + 1],
       Base64Chars[(n % 64) + 1], Base64Chars[(n % 64) + 1]>>

\* One group of the encoding: up to three bytes give four characters, "="
\* standing for the sextets that hold no byte.
EncodeGroup(g) ==
  LET n == g[1] * 65536 + (IF Len(g) >= 2 THEN g[2] ELSE 0) * 256
             + (IF Len(g) >= 3 THEN g[3] ELSE 0)
      c1 == Base64Chars[(n \div 262144) + 1]
      c2 == Base64Chars[((n \div 4096) % 64) + 1]
      c3 == Base64Chars[((n \div 64) % 64) + 1]
      c4 == Base64Chars[(n % 64) + 1]
  IN IF Len(g) = 1 THEN <<c1, c2, "=", "=">>
     ELSE IF Len(g) = 2 THEN <<c1, c2, c3, "=">>
     ELSE <<c1, c2, c3, c4>>

RECURSIVE Base64Encode(_)
\* buffer.toString('base64') of listed bytes
Base64Encode(bytes) ==
  IF Len(bytes) = 0 THEN <<>>
  ELSE IF Len(bytes) <= 3 THEN EncodeGroup(bytes)
  ELSE EncodeGroup(SubSeq(bytes, 1, 3)) \o Base64Encode(SubSeq(bytes, 4, Len(bytes)))

NotListed == <<"...">>

\* bufferToBase64
bufferToBase64(buffer) ==
  IF buffer.length = Len(buffer.bytes) THEN Base64Encode(buffer.bytes) ELSE NotListed

\* toProcessedImage
toProcessedImage(buffer, name, mime) ==
  [name |-> name, mime |-> mime, size |-> buffer.length, buffer |-> buffer,
   base64 |-> bufferToBase64(buffer)]

\* The entry a route sends for a ProcessedImage.
Sent(item) == [name |-> item.name, mime |-> item.mime, size |-> item.size,
               base64 |-> item.base64]

\* Uploads a client can send: a body that is not a form, a form without a
\* file, or a file with a name, a declared type and a body.
FileNames == { <<>>, <<"a">>, <<"a", ".", "p">>, <<"a", ".", "b", ".", "p">>,
               <<".", "p">>, <<"a", ".">>, <<"a", " ", ".", "p">> }

HttpMimes == {"image/png", "image/avif", "image/jpg", ""}

HttpBodies == {Buffer(<<>>), Buffer(<<77, 0, 255>>),
               UnlistedBuffer(DEFAULT_MAX_SIZE), UnlistedBuffer(BigLen)}

Uploads ==
  {[kind |-> "nobody", name |-> <<>>, mime |-> "", size |-> 0, bytes |-> <<>>],
   [kind |-> "nofile", name |-> <<>>, mime |-> "", size |-> 0, bytes |-> <<>>]}
  \cup {[kind |-> "file", name |-> n, mime |-> m, size |-> b.length, bytes |-> b.bytes] :
          n \in FileNames, m \in HttpMimes, b \in HttpBodies}

\* Thrown values: a NextResponse carries its status, an Error does not.
NextResponseJson(m, st) == [type |-> "NextResponse", status |-> st, message |-> m]

\* parseImageFormData: what it throws, NoThrow when it returns the file.
parseImageFormDataThrows(u) ==
  IF u.kind = "nobody" THEN [type |-> "TypeError", status |-> 0, message |-> FormDataError.message]
  ELSE IF u.kind = "nofile" THEN NextResponseJson("Image file is required.", 400)
  ELSE IF u.size > DEFAULT_MAX_SIZE THEN NextResponseJson("File is too large. Limit is 15MB.", 413)
  ELSE NoThrow

\* parseImageFormData: the file it returns.
parseImageFormData(u) ==
  [buffer   |-> [length |-> u.size, bytes |-> u.bytes],
   filename |-> sanitizeFilename(IF u.name = <<>> THEN Str_upload ELSE u.name),
   mime     |-> IF u.mime = "" THEN "application/octet-stream" ELSE u.mime,
   size     |-> u.size]

\* A response: results as sent, the duplicates made before packaging, the
\* names put in the archive, meta.count (in tenths), and the length of the buffer the core
\* operation was given (NotInvoked when it was not called).
NotInvoked == -2

NoCount == -1000

ErrorResponse(op, st, m) ==
  [op |-> op, status |-> st, error |-> m, results |-> <<>>, duplicates |-> <<>>,
   archive |-> <<>>, zipped |-> FALSE, metaCount |-> NoCount, core |-> NotInvoked]

\* toErrorResponse (the same text in the three routes)
toErrorResponse(op, e) ==
  IF e.type = "NextResponse" THEN ErrorResponse(op, e.status, e.message)
  ELSE ErrorResponse(op, 500, e.message)

OkResponse(op, results, duplicates, archive, zipped, metaCount, core) ==
  [op |-> op, status |-> 200, error |-> "none", results |-> results,
   duplicates |-> duplicates, archive |-> archive, zipped |-> zipped,
   metaCount |-> metaCount, core |-> core]

SharpThrow == [type |-> "Error", status |-> 0, message |-> SharpError.message]

QualityThrow == [type |-> "Error", status |-> 0,
                 message |-> "Expected integer between 1 and 100 for quality"]

\* What a library call does: the error it throws (NoThrow when it returns),
\* the descriptors it returns, and the steps it took in order.
Outcome(thrown, out, steps) == [thrown |-> thrown, out |-> out, steps |-> steps]

\* What the sharp pipeline gives when it throws instead of giving a buffer.
NoBuffer == [length |-> -1, bytes |-> <<>>]

\* compressImage(input, options); sharpOut is what pipeline.toBuffer() gives.
\* Format and preset "" are undefined. sharp refuses a quality option that is
\* not an integer from 1 to 100.
compressImage(input, options, sharpOut) ==
  LET quality == resolveQuality(options.preset, options.quality)
      format  == IF options.format = "" THEN "jpeg" ELSE options.format
  IN IF ensureSupportedMime(input.mime) # NoThrow
       THEN Outcome(ensureSupportedMime(input.mime), <<>>, <<"ensureSupportedMime">>)
     ELSE IF quality \notin 1..100
       THEN Outcome(QualityThrow, <<>>, <<"ensureSupportedMime", "resolveQuality", "sharp">>)
     ELSE IF sharpOut = NoBuffer
       THEN Outcome(SharpThrow, <<>>, <<"ensureSupportedMime", "resolveQuality", "sharp">>)
     ELSE Outcome(NoThrow,
                  <<toProcessedImage(sharpOut,
                                     deriveFilename(input.filename, formatMime(format)),
                                     formatMime(format))>>,
                  <<"ensureSupportedMime", "resolveQuality", "sharp", "toProcessedImage">>)

\* What sharp gives to the routes when it does not throw.
SharpOutput == Buffer(<<77>>)

\* POST compress; format and preset "" are absent fields.
CompressHandle(r) ==
  LET u == r.upload
      file == parseImageFormData(u)
      run == compressImage([buffer |-> file.buffer, filename |-> file.filename,
                            mime |-> file.mime],
                           [quality |-> getNumberFromFormData(r.quality),
                            preset |-> r.preset, format |-> r.format],
                           IF r.sharpOk THEN SharpOutput ELSE NoBuffer)
  IN IF parseImageFormDataThrows(u) # NoThrow
       THEN toErrorResponse("compress", parseImageFormDataThrows(u))
     ELSE IF ensureSupportedMime(file.mime) # NoThrow
       THEN toErrorResponse("compress", ensureSupportedMime(file.mime))
     ELSE IF run.thrown # NoThrow
       THEN [toErrorResponse("compress", run.thrown) EXCEPT !.core = file.buffer.length]
     ELSE OkResponse("compress", <<Sent(run.out[1])>>, <<>>, <<>>, FALSE,
                     NoCount, file.buffer.length)

\* convertToPng(input); sharpOut as in compressImage.
convertToPng(input, sharpOut) ==
  IF ensureSupportedMime(input.mime) # NoThrow
    THEN Outcome(ensureSupportedMime(input.mime), <<>>, <<"ensureSupportedMime">>)
  ELSE IF sharpOut = NoBuffer
    THEN Outcome(SharpThrow, <<>>, <<"ensureSupportedMime", "sharp">>)
  ELSE Outcome(NoThrow,
               <<toProcessedImage(sharpOut, deriveFilename(input.filename, "image/png"),
                                  "image/png")>>,
               <<"ensureSupportedMime", "sharp", "toProcessedImage">>)

\* POST convert-to-png
ConvertHandle(r) ==
  LET u == r.upload
      file == parseImageFormData(u)
      run == convertToPng([buffer |-> file.buffer, filename |-> file.filename,
                           mime |-> file.mime],
                          IF r.sharpOk THEN SharpOutput ELSE NoBuffer)
  IN IF parseImageFormDataThrows(u) # NoThrow
       THEN toErrorResponse("convert-to-png", parseImageFormDataThrows(u))
     ELSE IF ensureSupportedMime(file.mime) # NoThrow
       THEN toErrorResponse("convert-to-png", ensureSupportedMime(file.mime))
     ELSE IF run.thrown # NoThrow
       THEN [toErrorResponse("convert-to-png", run.thrown) EXCEPT !.core = file.buffer.length]
     ELSE OkResponse("convert-to-png", <<Sent(run.out[1])>>, <<>>, <<>>, FALSE,
                     NoCount, file.buffer.length)

MAX_DUPLICATES == 20

\* Array.from({ length: n }): ToLength turns a negative length into 0.
ArrayLength(n) == Max(0, n)

\* ToIntegerOrInfinity of a number given in tenths: the fraction is dropped.
Truncate(tenths) == IF tenths >= 0 THEN tenths \div 10 ELSE -((-tenths) \div 10)

\* duplicateImage whose copies lose the encoded text.
duplicateImage_DropsBase64(input, count) ==
  [i \in 1..ArrayLength(count) |->
     [input EXCEPT !.name = appendSuffix(input.name, i), !.base64 = <<>>]]

\* duplicateImage(input, count)
duplicateImage(input, count) ==
  [i \in 1..ArrayLength(count) |-> [input EXCEPT !.name = appendSuffix(input.name, i)]]

\* What zip.generateAsync gives to the duplicate route.
ZipOutput == Buffer(<<77>>)

\* POST duplicate: count as the route computes it, in tenths.
DuplicateCount(field) ==
  Min(IF getNumberFromFormData(field).kind = "num" THEN getNumberFromFormData(field).val ELSE 10,
      MAX_DUPLICATES * 10)

\* POST duplicate
DuplicateHandle(r) ==
  LET u == r.upload
      file == parseImageFormData(u)
      count == DuplicateCount(r.count)
      processed == [name |-> file.filename, mime |-> file.mime, size |-> file.size,
                    buffer |-> file.buffer, base64 |-> bufferToBase64(file.buffer)]
      duplicates == [i \in 1..ArrayLength(Truncate(count)) |->
                       [processed EXCEPT !.name = appendSuffix(processed.name, i)]]
  IN IF parseImageFormDataThrows(u) # NoThrow
       THEN toErrorResponse("duplicate", parseImageFormDataThrows(u))
     ELSE IF ensureSupportedMime(file.mime) # NoThrow
       THEN toErrorResponse("duplicate", ensureSupportedMime(file.mime))
     ELSE IF r.zip /\ count > 10
       THEN OkResponse("duplicate",
                       << Sent(toProcessedImage(ZipOutput, Str_zip, "application/zip")) >>,
                       duplicates, [i \in 1..Len(duplicates) |-> duplicates[i].name],
                       TRUE, count, file.buffer.length)
     ELSE OkResponse("duplicate", [i \in 1..Len(duplicates) |-> Sent(duplicates[i])],
                     duplicates, <<>>, FALSE, count, file.buffer.length)

NoReq == [op |-> "none"]

NoResp == ErrorResponse("none", 0, "none")

HttpInit ==
  /\ req = NoReq
  /\ resp = NoResp

Formats == {"", "png", "webp", "gif"}

Presets == {"", "medium", "bogus", "toString"}

QualityFields == {Absent, Text, Num(-5), Num(904), Num(905), Num(1500)}

CountFields == {Absent, Text, Num(-10), Num(0), Num(5), Num(10), Num(15), Num(20),
                Num(200), Num(210), Num(1000)}

LibCounts == {-1, 0, 1, 3, 20, 21, 100}

LibImages == {toProcessedImage(Buffer(b), n, "image/png") :
                b \in {<<>>, <<77, 255>>}, n \in {<<"a", ".", "p">>, <<"a">>}}

LibMimes == {"image/jpeg", "image/png", "image/webp", "image/avif", "image/heic",
             "image/heif", "image/gif", "image/jpg", "IMAGE/PNG", "",
             "application/octet-stream"}

LibFormats == {"", "jpeg", "png", "webp"}

LibPresets == {"", "high", "medium", "low", "bogus", "toString"}

\* A quality that is a number but not a finite one (NaN, Infinity).
NotFinite == [kind |-> "nan", val |-> 0]

LibQualities == {Absent, NotFinite} \cup
  {Num(n) : n \in {-15, -5, 0, 4, 5, 10, 14, 15, 500, 904, 905, 1000, 1004, 1005, 1500}}

\* The encoded image given to the direct compressImage and convertToPng calls.
LibInput == Buffer(<<255, 0>>)

\* Options of the direct compressImage calls.
LibOptions == {[preset |-> "", quality |-> Absent], [preset |-> "low", quality |-> Num(905)],
               [preset |-> "toString", quality |-> Absent]}

CompressPost ==
  /\ req = NoReq
  /\ \E u \in Uploads, f \in Formats, ps \in Presets, q \in QualityFields, ok \in BOOLEAN :
       /\ req' = [op |-> "compress", upload |-> u, format |-> f, preset |-> ps,
                  quality |-> q, sharpOk |-> ok]
       /\ resp' = CompressHandle(req')
  /\ UNCHANGED <<gateVars, pageVars>>

ConvertPost ==
  /\ req = NoReq
  /\ \E u \in Uploads, ok \in BOOLEAN :
       /\ req' = [op |-> "convert-to-png", upload |-> u, sharpOk |-> ok]
       /\ resp' = ConvertHandle(req')
  /\ UNCHANGED <<gateVars, pageVars>>

DuplicatePost ==
  /\ req = NoReq
  /\ \E u \in Uploads, c \in CountFields, z \in BOOLEAN :
       /\ req' = [op |-> "duplicate", upload |-> u, count |-> c, zip |-> z]
       /\ resp' = DuplicateHandle(req')
  /\ UNCHANGED <<gateVars, pageVars>>

\* A direct call of the library function duplicateImage; resp.input is the
\* caller's descriptor as the call leaves it.
DuplicateImageCall ==
  /\ req = NoReq
  /\ \E img \in LibImages, c \in LibCounts :
       /\ req' = [op |-> "duplicateImage", input |-> img, count |-> c]
       /\ resp' = [input |-> img] @@
                   OkResponse("duplicateImage", duplicateImage(img, c),
                              duplicateImage(img, c), <<>>, FALSE, NoCount, NotInvoked)
  /\ UNCHANGED <<gateVars, pageVars>>

\* A direct call of resolveQuality.
ResolveQualityCall ==
  /\ req = NoReq
  /\ \E ps \in LibPresets, q \in LibQualities :
       /\ req' = [op |-> "resolveQuality", preset |-> ps, quality |-> q]
       /\ resp' = [op |-> "resolveQuality", thrown |-> NoThrow,
                   value |-> resolveQuality(ps, q)]
  /\ UNCHANGED <<gateVars, pageVars>>

\* A direct call of ensureSupportedMime.
EnsureSupportedMimeCall ==
  /\ req = NoReq
  /\ \E m \in LibMimes :
       /\ req' = [op |-> "ensureSupportedMime", mime |-> m]
       /\ resp' = [op |-> "ensureSupportedMime", thrown |-> ensureSupportedMime(m)]
  /\ UNCHANGED <<gateVars, pageVars>>

\* A direct call of compressImage.
CompressImageCall ==
  /\ req = NoReq
  /\ \E n \in FileNames, m \in LibMimes, f \in LibFormats, o \in LibOptions,
        out \in Buffers \cup {NoBuffer} :
       /\ req' = [op |-> "compressImage",
                  input |-> [buffer |-> LibInput, filename |-> n, mime |-> m],
                  options |-> [preset |-> o.preset, quality |-> o.quality, format |-> f],
                  sharpOut |-> out]
       /\ resp' = [op |-> "compressImage"] @@ compressImage(req'.input, req'.options, out)
  /\ UNCHANGED <<gateVars, pageVars>>

\* A direct call of convertToPng.
ConvertToPngCall ==
  /\ req = NoReq
  /\ \E n \in FileNames, m \in LibMimes, out \in Buffers \cup {NoBuffer} :
       /\ req' = [op |-> "convertToPng",
                  input |-> [buffer |-> LibInput, filename |-> n, mime |-> m], sharpOut |-> out]
       /\ resp' = [op |-> "convertToPng"] @@ convertToPng(req'.input, out)
  /\ UNCHANGED <<gateVars, pageVars>>

\* The library calls made while background removals are running.
ImageCalls ==
  {[op |-> "compressImage",
    input |-> [buffer |-> LibInput, filename |-> <<"a", ".", "p">>, mime |-> "image/png"],
    options |-> [preset |-> "low", quality |-> Absent, format |-> "webp"],
    sharpOut |-> SharpOutput],
   [op |-> "compressImage",
    input |-> [buffer |-> LibInput, filename |-> <<"a", ".", "p">>, mime |-> "image/gif"],
    options |-> [preset |-> "", quality |-> Absent, format |-> ""],
    sharpOut |-> SharpOutput],
   [op |-> "convertToPng",
    input |-> [buffer |-> LibInput, filename |-> <<"a">>, mime |-> "image/webp"],
    sharpOut |-> SharpOutput],
   [op |-> "duplicateImage",
    input |-> toProcessedImage(Buffer(<<77, 255>>), <<"a", ".", "p">>, "image/png"),
    count |-> 2]}

\* What the library call r gives.
ImageResult(r) ==
  CASE r.op = "compressImage" ->
         [op |-> r.op] @@ compressImage(r.input, r.options, r.sharpOut)
    [] r.op = "convertToPng" ->
         [op |-> r.op] @@ convertToPng(r.input, r.sharpOut)
    [] OTHER ->
         [op |-> r.op] @@ Outcome(NoThrow, duplicateImage(r.input, r.count), <<>>)

\* Variant in which the image operations stand at the gate of the removals.
ImageOp_Gated ==
  /\ \E r \in ImageCalls :
       /\ req' = r
       /\ resp' = IF GateFull(activeRemovals)
                  THEN [op |-> r.op] @@
                       Outcome([type |-> "BGError", status |-> 0, message |-> BusyMessage],
                               <<>>, <<>>)
                  ELSE ImageResult(r)
  /\ UNCHANGED <<gateVars, pageVars>>

\* compressImage, convertToPng or duplicateImage called at any moment, any
\* number of times, next to the running removals.
ImageOp ==
  /\ \E r \in ImageCalls :
       /\ req' = r
       /\ resp' = ImageResult(r)
  /\ UNCHANGED <<gateVars, pageVars>>

HttpNext ==
  \/ CompressPost
  \/ ConvertPost
  \/ DuplicatePost
  \/ DuplicateImageCall
  \/ ResolveQualityCall
  \/ EnsureSupportedMimeCall
  \/ CompressImageCall
  \/ ConvertToPngCall

\* Direct library calls only: the callers of the tests.
LibNext ==
  \E p \in Procs :
    \/ LibCall(p)
    \/ Succeed(p)
    \/ Fail(p)

\* Requests to the remove-background endpoint only.
RouteNext ==
  \E p \in Procs :
    \/ RouteRead(p)
    \/ RouteCall(p)
    \/ Succeed(p)
    \/ Fail(p)

\* ----------------------------------------------------------- generator page
MaxFiles == 2

MaxRuns == 2

Null == "null"

NoTimer == -1

NoFileSelected == "Upload an image to get started."

\* How the awaited fetch and response.json() of handleGenerate can settle: a
\* successful response with k results, an error response with or without a
\* message, a thrown Error, a thrown value that is no Error.
Settlements ==
  {[kind |-> "ok", results |-> k, message |-> Null] : k \in 0..2} \cup
  {[kind |-> "error response", results |-> 0, message |-> m] :
     m \in {"Unsupported image format. Please upload jpeg, png, webp, avif, or heic.",
            "Request failed."}} \cup
  {[kind |-> "thrown", results |-> 0, message |-> m] :
     m \in {"Failed to fetch", "Something went wrong."}}

PageInit ==
  /\ state = "idle"
  /\ files = 0
  /\ showScan = FALSE
  /\ error = Null
  /\ pageResults = 0
  /\ timer = NoTimer
  /\ gen = "none"
  /\ hasFiles = FALSE
  /\ outcome = "none"
  /\ runs = 0
  /\ sent = 0

\* handleFilesSelected (UploadArea is rendered in state idle) and
\* handleAddMore (FileListBar is rendered in states uploaded and completed),
\* up to the await of the timer.
SelectFiles ==
  /\ state \in {"idle", "uploaded", "completed"}
  /\ \E n \in 0..MaxFiles :
       /\ files + n <= MaxFiles
       /\ timer' = n
  /\ state' = "loading"
  /\ error' = Null
  /\ UNCHANGED <<files, showScan, pageResults, gen, hasFiles, outcome, runs, sent>>
  /\ UNCHANGED <<gateVars, httpVars>>

\* handleFilesSelected / handleAddMore resumed by the timer.
FilesLoaded ==
  /\ timer # NoTimer
  /\ files' = files + timer
  /\ state' = "uploaded"
  /\ timer' = NoTimer
  /\ UNCHANGED <<showScan, error, pageResults, gen, hasFiles, outcome, runs, sent>>
  /\ UNCHANGED <<gateVars, httpVars>>

\* handleDeleteFile (FileListBar is rendered in states uploaded and completed)
DeleteFile ==
  /\ state \in {"uploaded", "completed"}
  /\ files > 0
  /\ files' = files - 1
  /\ state' = IF files - 1 = 0 THEN "idle" ELSE state
  /\ UNCHANGED <<showScan, error, pageResults, timer, gen, hasFiles, outcome, runs, sent>>
  /\ UNCHANGED <<gateVars, httpVars>>

\* handleGenerate up to its await of fetch, or to its early return (the
\* GenerateButton is rendered in states uploaded and completed).
GenerateClick ==
  /\ state \in {"uploaded", "completed"}
  /\ runs < MaxRuns
  /\ runs' = runs + 1
  /\ pageResults' = 0
  /\ IF files = 0
     THEN /\ error' = NoFileSelected
          /\ UNCHANGED <<state, showScan, gen, hasFiles, sent>>
     ELSE /\ error' = Null
          /\ state' = "processing"
          /\ showScan' = TRUE
          /\ gen' = "fetch"
          /\ hasFiles' = (files > 0)
          /\ sent' = sent + 1
  /\ UNCHANGED <<files, timer, outcome>>
  /\ UNCHANGED <<gateVars, httpVars>>

\* Variant of the settling with setShowScan(false) at the end of the try
\* block instead of in finally.
GenerateSettles_NoFinally ==
  /\ gen = "fetch"
  /\ \E r \in Settlements :
       /\ outcome' = r.kind
       /\ IF r.kind = "ok"
          THEN /\ pageResults' = r.results
               /\ state' = "completed"
               /\ showScan' = FALSE
               /\ UNCHANGED error
          ELSE /\ error' = r.message
               /\ state' = IF hasFiles THEN "uploaded" ELSE "idle"
               /\ UNCHANGED <<pageResults, showScan>>
  /\ gen' = "none"
  /\ UNCHANGED <<files, timer, hasFiles, runs, sent>>
  /\ UNCHANGED <<gateVars, httpVars>>

\* handleGenerate resumed when fetch and response.json() have settled: the
\* rest of the try block or the catch block, then finally.
GenerateSettles ==
  /\ gen = "fetch"
  /\ \E r \in Settlements :
       /\ outcome' = r.kind
       /\ IF r.kind = "ok"
          THEN /\ pageResults' = r.results
               /\ state' = "completed"
               /\ UNCHANGED error
          ELSE /\ error' = r.message
               /\ state' = IF hasFiles THEN "uploaded" ELSE "idle"
               /\ UNCHANGED pageResults
  /\ showScan' = FALSE
  /\ gen' = "none"
  /\ UNCHANGED <<files, timer, hasFiles, runs, sent>>
  /\ UNCHANGED <<gateVars, httpVars>>

PageNext ==
  \/ SelectFiles
  \/ FilesLoaded
  \/ DeleteFile
  \/ GenerateClick
  \/ GenerateSettles

\* Background removals and image operations side by side.
MixedNext ==
  \/ LibNext
  \/ ImageOp

vars == <<gateVars, httpVars, pageVars>>

Init == GateInit /\ HttpInit /\ PageInit

Next == LibNext

Spec == Init /\ [][Next]_vars

\* Direct library calls when every awaited call (sharp, the segmentation, the
\* blob) eventually resolves or rejects.
SpecFair == Init /\ [][Next]_vars /\ \A p \in Procs : WF_vars(Succeed(p) \/ Fail(p))

SpecRoute == Init /\ [][RouteNext]_vars

SpecMixed == Init /\ [][MixedNext]_vars

SpecPage == Init /\ [][PageNext]_vars

SpecHttp == Init /\ [][HttpNext]_vars

\* ================================================================== claims
Admitted == {p \in Procs : incs[p] > decs[p]}

Started == {p \in Procs : pc[p] # "idle"}

BusyErr == BGError(BusyMessage)

EmptyErr == BGError(EmptyMessage)

\* C1: in every reachable state 0 <= activeRemovals <= 2, and never more than
\* two invocations are between admission and release.
C1_GateBound ==
  /\ activeRemovals \in 0..2
  /\ Cardinality(Admitted) <= 2

\* C1 witness: the gate is full and a further caller has been turned away.
C1_Witness ==
  /\ activeRemovals = 2
  /\ \E p \in Procs : err[p] = BusyErr

\* C2: an admitted invocation has run the release exactly once when it has
\* terminated, and not before, whatever the exit path.
C2_ReleasedOnceOnExit ==
  \A p \in Procs :
    /\ decs[p] <= incs[p]
    /\ incs[p] <= 1
    /\ (pc[p] = "done" /\ incs[p] = 1) => decs[p] = 1
    /\ decs[p] = 1 => pc[p] = "done"

\* C2 witness: a success, an empty-input failure and a segmentation failure
\* have all terminated, each with one release.
C2_Witness ==
  \E p, q, r \in Procs :
    /\ returned[p] /\ decs[p] = 1
    /\ err[q] = EmptyErr /\ decs[q] = 1
    /\ err[r] = BGError(SegmentationError.message) /\ decs[r] = 1

\* C3: while none of the N non-empty invocations started so far has finished,
\* exactly min(N, 2) of them are admitted and the other N - min(N, 2) are
\* rejected as Busy.
C3_FirstTwoAdmitted ==
  ((\A p \in Started : buf[p] > 0) /\ (\A p \in Procs : decs[p] = 0))
    => /\ Cardinality({p \in Started : incs[p] = 1}) = Min(Cardinality(Started), 2)
       /\ Cardinality({p \in Started : err[p] = BusyErr})
            = Cardinality(Started) - Min(Cardinality(Started), 2)
       /\ \A p \in Started : incs[p] = 1 \/ err[p] = BusyErr

\* C3 witness: three non-empty calls, none finished: two held, the third Busy.
C3_Witness ==
  /\ Cardinality(Started) = 3
  /\ \A p \in Started : buf[p] > 0
  /\ \A p \in Procs : decs[p] = 0
  /\ Cardinality({p \in Started : pc[p] \in Stages}) = 2
  /\ Cardinality({p \in Started : err[p] = BusyErr}) = 1

\* C4: the first call after a release that found the gate full is never
\* rejected as Busy.
C4_CapacityRestored == lastGate # "refused"

\* C4 witness: a call was admitted right after a release from a full gate.
C4_Witness == lastGate = "refill"

\* C5: a call arriving at a full gate ends at once as Busy without changing
\* the counter, reading the input or calling the segmentation; a call
\* arriving below capacity increments the counter exactly once.
C5_CallEffect ==
  [][\A p \in Procs :
       (pc[p] = "idle" /\ pc'[p] # "idle") =>
         IF activeRemovals >= 2
         THEN /\ pc'[p] = "done"
              /\ err'[p] = BusyErr
              /\ activeRemovals' = activeRemovals
              /\ incs'[p] = 0 /\ decs'[p] = 0
              /\ ~readInput'[p]
              /\ segCalls'[p] = 0
         ELSE /\ incs'[p] = 1
              /\ err'[p] # BusyErr
              /\ buf'[p] > 0 => activeRemovals' = activeRemovals + 1]_vars

\* C5 witness: one caller was rejected untouched while another was admitted.
C5_Witness ==
  \E p, q \in Procs :
    /\ err[p] = BusyErr /\ incs[p] = 0 /\ ~readInput[p]
    /\ incs[q] = 1 /\ pc[q] \in Stages

\* C6 (as stated): in every gate state a call with an empty buffer ends with
\* the EmptyInput error, without a segmentation call and with the counter as
\* before.
C6_EmptyAlwaysEmptyInput ==
  \A p \in Procs :
    (origin[p] = "lib" /\ buf[p] \in {NullBuf, 0}) =>
      /\ pc[p] = "done"
      /\ err[p] = EmptyErr
      /\ segCalls[p] = 0
      /\ incs[p] = decs[p]

\* C6 (amended): a call with an empty buffer ends at once, with EmptyInput
\* when the gate has capacity and with Busy when it is full; either way no
\* segmentation call is made and the counter is as before the call.
C6_EmptyInputOrBusy ==
  [][\A p \in Procs :
       (pc[p] = "idle" /\ pc'[p] # "idle" /\ buf'[p] \in {NullBuf, 0}) =>
         /\ pc'[p] = "done"
         /\ err'[p] = IF activeRemovals < 2 THEN EmptyErr ELSE BusyErr
         /\ segCalls'[p] = 0
         /\ incs'[p] = decs'[p]
         /\ activeRemovals' = activeRemovals]_vars

\* C6 witness: an empty call failed with EmptyInput while another invocation
\* held a slot, and the counter is that one slot.
C6_Witness ==
  \E p, q \in Procs :
    /\ buf[p] \in {NullBuf, 0} /\ origin[p] = "lib" /\ err[p] = EmptyErr
    /\ segCalls[p] = 0
    /\ pc[q] \in Stages
    /\ activeRemovals = 1

\* C7: on the remove-background endpoint validation errors and Busy answer
\* 400, a failed segmentation or image-library call answers 500.
C7_StatusClasses ==
  \A p \in Procs :
    (origin[p] = "route" /\ pc[p] = "done" /\ err[p] # NoErr) =>
      /\ err[p].message \in {NoFileMessage, BadFormatMessage, EmptyMessage, BusyMessage}
           => status[p] = 400
      /\ err[p].message \in {SegmentationError.message, SharpError.message,
                             UnknownRemovalMessage}
           => status[p] = 500

\* C8: compress, convert-to-png and duplicate answer a file of an unsupported
\* media type with a 4xx status.
C8_UnsupportedIs4xx ==
  (/\ req.op \in {"compress", "convert-to-png", "duplicate"}
   /\ req.upload.kind = "file"
   /\ req.upload.size <= DEFAULT_MAX_SIZE
   /\ parseImageFormData(req.upload).mime \notin SUPPORTED_MIME)
    => resp.status \in 400..499

\* C9: a file larger than 15 MB is answered 413 and never reaches a core
\* operation (here: removeBackgroundLocal behind the remove-background route).
C9_OversizeRejected ==
  \A p \in Procs :
    (origin[p] = "route" /\ buf[p] > DEFAULT_MAX_SIZE) =>
      /\ incs[p] = 0
      /\ status[p] \in {0, 413}

\* C10: duplication yields exactly min(count, 20) entries, none for count <= 0.
C10_ClampedCount ==
  /\ (req.op = "duplicateImage")
       => Len(resp.duplicates) = IF req.count <= 0 THEN 0 ELSE Min(req.count, 20)
  /\ (req.op = "duplicate" /\ resp.status = 200 /\ req.count.kind = "num"
        /\ req.count.val % 10 = 0)
       => Len(resp.duplicates)
            = IF req.count.val <= 0 THEN 0 ELSE Min(req.count.val \div 10, 20)

\* The name before its last dot and what follows the last dot (empty when the
\* name has no dot or ends with one).
LastDot(name) ==
  LET dots == {i \in 1..Len(name) : name[i] = "."} IN
  IF dots = {} THEN 0 ELSE CHOOSE i \in dots : \A j \in dots : j <= i

ExtOf(name) == IF LastDot(name) = 0 THEN <<>> ELSE SubSeq(name, LastDot(name) + 1, Len(name))

BaseOf(name) == IF LastDot(name) = 0 THEN name ELSE SubSeq(name, 1, LastDot(name) - 1)

CopyName(name, i) ==
  IF ExtOf(name) = <<>> THEN BaseOf(name) \o Str_copy \o Decimal(i)
  ELSE BaseOf(name) \o Str_copy \o Decimal(i) \o <<".">> \o ExtOf(name)

\* C11: the i-th duplicate of a file is named <base>-copy-<i>.<ext>, or
\* <base>-copy-<i> when the name has no extension, for i = 1..count in order.
C11_CopyNames ==
  /\ req.op = "duplicateImage" =>
       \A i \in 1..Len(resp.duplicates) :
         resp.duplicates[i].name = CopyName(req.input.name, i)
  /\ (req.op = "duplicate" /\ resp.status = 200) =>
       \A i \in 1..Len(resp.duplicates) :
         resp.duplicates[i].name = CopyName(parseImageFormData(req.upload).filename, i)

\* C12: the duplicate endpoint answers with one archive entry only when zip
\* is requested and more than one duplicate was made; one duplicate is sent
\* as the raw image entry; two or more with zip are sent as exactly one
\* archive entry.
C12_ArchiveOnlyForSeveral ==
  (req.op = "duplicate" /\ resp.status = 200) =>
    LET isArchive == Len(resp.results) = 1 /\ resp.results[1].mime = "application/zip" IN
    /\ isArchive => (req.zip /\ Len(resp.duplicates) > 1)
    /\ Len(resp.duplicates) = 1 =>
         /\ ~isArchive
         /\ Len(resp.results) = 1
         /\ resp.results[1].name = resp.duplicates[1].name
         /\ resp.results[1].mime = resp.duplicates[1].mime
    /\ (Len(resp.duplicates) >= 2 /\ req.zip) => isArchive

\* C13: every entry made by duplicateImage equals the input descriptor in
\* every field but name, and the input descriptor is as it was before the call.
C13_CopiesKeepFields ==
  req.op = "duplicateImage" =>
    /\ \A i \in 1..Len(resp.duplicates) :
         /\ resp.duplicates[i].mime = req.input.mime
         /\ resp.duplicates[i].size = req.input.size
         /\ resp.duplicates[i].buffer = req.input.buffer
         /\ resp.duplicates[i].base64 = req.input.base64
         /\ DOMAIN resp.duplicates[i] = DOMAIN req.input
    /\ resp.input = req.input

\* C13 witness: three copies of a two-byte image were made.
C13_Witness ==
  /\ req.op = "duplicateImage"
  /\ req.input.buffer.bytes = <<77, 255>>
  /\ Len(resp.duplicates) = 3
  /\ resp.duplicates[3].name # req.input.name

\* C14: resolveQuality never fails and returns an integer from 1 to 100; with
\* no finite quality it returns 90, 80, 65 for high, medium, low and 90 for
\* every other preset value.
C14_QualityAlwaysInRange ==
  req.op = "resolveQuality" =>
    /\ resp.thrown = NoThrow
    /\ resp.value \in 1..100
    /\ req.quality.kind # "num" =>
         resp.value = CASE req.preset = "high"   -> 90
                        [] req.preset = "medium" -> 80
                        [] req.preset = "low"    -> 65
                        [] OTHER                 -> 90

\* C15: with a finite quality resolveQuality returns the quality rounded to
\* the nearest integer and clamped to 1..100, whatever the preset: above 100
\* gives 100, below 1 gives 1, a whole number in range is returned as it is.
\* (req.quality.val is the quality in tenths.)
C15_ExplicitQualityWins ==
  (req.op = "resolveQuality" /\ req.quality.kind = "num") =>
    LET q == req.quality.val
        r == resp.value
    IN /\ resp.thrown = NoThrow
       /\ r \in 1..100
       /\ q > 1000 => r = 100
       /\ q < 10 => r = 1
       /\ q \in 10..1000 => (q - 5 < 10 * r /\ 10 * r <= q + 5)
       /\ (q \in 10..1000 /\ q % 10 = 0) => 10 * r = q

\* C15 witness: quality 90.5 with preset low gave 91, not the preset's 65.
C15_Witness ==
  /\ req.op = "resolveQuality"
  /\ req.preset = "low"
  /\ req.quality = Num(905)
  /\ resp.value = 91

\* Decoding of base64 text, written from the format and not from the encoder.
CharValue(c) == IF c = "=" THEN 0 ELSE (CHOOSE i \in 1..64 : Base64Chars[i] = c) - 1

DecodeGroup(g) ==
  LET n == CharValue(g[1]) * 262144 + CharValue(g[2]) * 4096
             + CharValue(g[3]) * 64 + CharValue(g[4])
      pad == Cardinality({i \in 3..4 : g[i] = "="})
  IN SubSeq(<<n \div 65536, (n \div 256) % 256, n % 256>>, 1, 3 - pad)

RECURSIVE Base64Decode(_)
Base64Decode(text) ==
  IF Len(text) < 4 THEN <<>>
  ELSE DecodeGroup(SubSeq(text, 1, 4)) \o Base64Decode(SubSeq(text, 5, Len(text)))

\* The descriptors made by compressImage, convertToPng and the duplicate endpoint.
Produced ==
  IF req.op \in {"compressImage", "convertToPng"} THEN {resp.out[i] : i \in 1..Len(resp.out)}
  ELSE IF req.op = "duplicate" /\ resp.status = 200
    THEN {resp.duplicates[i] : i \in 1..Len(resp.duplicates)}
  ELSE {}

\* C16: every descriptor made by compressImage, convertToPng or the duplicate
\* endpoint has size = number of bytes, and its base64 text has the length of
\* an encoding of that many bytes and decodes to exactly the bytes (also for
\* no bytes at all).
C16_SizeAndBase64 ==
  \A e \in Produced :
    /\ e.size = e.buffer.length
    /\ e.buffer.length = Len(e.buffer.bytes) =>
         /\ Len(e.base64) = 4 * ((e.size + 2) \div 3)
         /\ Base64Decode(e.base64) = e.buffer.bytes

\* C16 witness: compressImage returned two bytes, encoded with one pad character.
C16_Witness ==
  /\ req.op = "compressImage"
  /\ Len(resp.out) = 1
  /\ resp.out[1].buffer.bytes = <<77, 255>>
  /\ resp.out[1].base64[4] = "="
  /\ resp.out[1].base64[3] # "="

\* The name an operation gives to its output: the input name without its
\* extension, then a dot and the target's extension.
TargetName(name, ext) ==
  (IF ExtOf(name) = <<>> THEN name ELSE BaseOf(name)) \o <<".">> \o ext

\* C17: for a supported input, compressImage gives mime image/jpeg, image/webp
\* or image/png for format jpeg (or none), webp or png, and convertToPng gives
\* image/png; the output name is the input name with its extension replaced
\* by jpg, webp or png.
C17_TargetMimeAndName ==
  /\ (req.op = "compressImage" /\ req.input.mime \in SUPPORTED_MIME /\ resp.thrown = NoThrow) =>
       /\ Len(resp.out) = 1
       /\ resp.out[1].mime = CASE req.options.format = "webp" -> "image/webp"
                               [] req.options.format = "png"  -> "image/png"
                               [] OTHER                       -> "image/jpeg"
       /\ resp.out[1].name =
            TargetName(req.input.filename,
                       CASE req.options.format = "webp" -> <<"w", "e", "b", "p">>
                         [] req.options.format = "png"  -> <<"p", "n", "g">>
                         [] OTHER                       -> <<"j", "p", "g">>)
  /\ (req.op = "convertToPng" /\ req.input.mime \in SUPPORTED_MIME /\ resp.thrown = NoThrow) =>
       /\ Len(resp.out) = 1
       /\ resp.out[1].mime = "image/png"
       /\ resp.out[1].name = TargetName(req.input.filename, <<"p", "n", "g">>)

\* C17 witness: a.b.p compressed to webp is named a.b.webp.
C17_Witness ==
  /\ req.op = "compressImage"
  /\ req.input.filename = <<"a", ".", "b", ".", "p">>
  /\ req.options.format = "webp"
  /\ Len(resp.out) = 1
  /\ resp.out[1].name = <<"a", ".", "b", ".", "w", "e", "b", "p">>

\* C18: ensureSupportedMime fails exactly for a type outside the six supported
\* ones; compressImage and convertToPng make this check first, and for such a
\* type they fail with the unsupported-format error with no other step taken
\* and no output.
C18_MimeCheckedFirst ==
  LET six == {"image/jpeg", "image/png", "image/webp", "image/avif", "image/heic",
              "image/heif"}
  IN /\ req.op = "ensureSupportedMime" =>
          /\ (resp.thrown # NoThrow) <=> (req.mime \notin six)
          /\ resp.thrown \in {NoThrow, UnsupportedError}
     /\ req.op \in {"compressImage", "convertToPng"} =>
          /\ Head(resp.steps) = "ensureSupportedMime"
          /\ req.input.mime \notin six =>
               /\ resp.thrown = UnsupportedError
               /\ resp.steps = <<"ensureSupportedMime">>
               /\ resp.out = <<>>
          /\ req.input.mime \in six => resp.thrown # UnsupportedError

\* C18 witness: compressImage refused image/gif although its options and the
\* pipeline would have given an image.
C18_Witness ==
  /\ req.op = "compressImage"
  /\ req.input.mime = "image/gif"
  /\ req.options.quality = Num(905)
  /\ req.sharpOut # NoBuffer
  /\ resp.thrown = UnsupportedError

\* C19 as stated: a failed invocation ends with a BGError carrying the message
\* of the value that was thrown, and returns nothing.
C19_MessageIsUnderlying ==
  \A p \in Procs :
    cause[p] # NoErr =>
      /\ pc[p] = "done"
      /\ err[p].type = "BGError"
      /\ err[p].message = cause[p].message
      /\ ~returned[p]

\* C19: every failure of removeBackgroundLocal reaches the caller as a BGError
\* and the invocation returns nothing; the BGError carries the message of the
\* value that was thrown, or "Unknown background removal error" when that
\* value has no message. An invocation that returned has thrown nothing.
C19_WrappedOrFallback ==
  \A p \in Procs :
    /\ cause[p] # NoErr =>
         /\ pc[p] = "done"
         /\ err[p].type = "BGError"
         /\ err[p].message = IF cause[p].message = "undefined"
                             THEN "Unknown background removal error"
                             ELSE cause[p].message
         /\ ~returned[p]
    /\ (pc[p] = "done" /\ origin[p] = "lib") => (returned[p] <=> cause[p] = NoErr)
    /\ (err[p] # NoErr /\ origin[p] = "lib") => cause[p] # NoErr

\* C19 witness: one invocation failed in the segmentation, one on a thrown
\* value without a message, and both ended with a BGError.
C19_Witness ==
  \E p, q \in Procs :
    /\ cause[p] = SegmentationError
    /\ err[p] = BGError(SegmentationError.message)
    /\ cause[q] = BareThrow
    /\ err[q].type = "BGError"
    /\ ~returned[p] /\ ~returned[q]

\* The awaits of one invocation in their order: image metadata and
\* preprocessing, segmentation and reading its blob, alpha refinement, encoding.
StepOrder ==
  {<<"idle", "metadata">>, <<"metadata", "preprocess">>, <<"preprocess", "segment">>,
   <<"segment", "blob">>, <<"blob", "alpha">>, <<"alpha", "encode">>, <<"encode", "done">>}

\* C20: an invocation moves only along admission, validation, preprocessing,
\* segmentation, alpha refinement, encoding, release, or from any of them to
\* its end on a failure; the segmentation is called once at most, and only by
\* an invocation that is admitted, has read its input and has preprocessed it;
\* a failure ends the invocation at once, with no further call and no output;
\* the release happens only as the invocation ends.
C20_StepsInOrder ==
  [][\A p \in Procs :
       pc'[p] # pc[p] =>
         /\ \/ <<pc[p], pc'[p]>> \in StepOrder
            \/ /\ pc'[p] = "done"
               /\ pc[p] \in {"idle", "metadata", "preprocess", "segment", "blob",
                             "alpha", "encode"}
               /\ err'[p] # NoErr
         /\ pc[p] = "idle" /\ pc'[p] # "done" =>
              /\ incs'[p] = 1 /\ decs'[p] = 0
              /\ readInput'[p]
              /\ buf'[p] > 0
              /\ segCalls'[p] = 0
         /\ segCalls'[p] \in 0..1
         /\ segCalls'[p] # segCalls[p] =>
              /\ pc[p] = "preprocess" /\ pc'[p] = "segment"
              /\ incs[p] = 1 /\ decs[p] = 0 /\ readInput[p]
         /\ pc'[p] = "segment" => segCalls'[p] = 1
         /\ err'[p] # NoErr =>
              /\ pc'[p] = "done"
              /\ segCalls'[p] = segCalls[p]
              /\ ~returned'[p]
         /\ decs'[p] # decs[p] => (pc'[p] = "done" /\ decs'[p] = 1 /\ incs'[p] = 1)
         /\ returned'[p] => (pc[p] = "encode" /\ pc'[p] = "done" /\ segCalls'[p] = 1)]_vars

\* C20 witness: one invocation went through every step and returned, another
\* failed in the segmentation after its single call and never got further.
C20_Witness ==
  \E p, q \in Procs :
    /\ pc[p] = "done" /\ returned[p] /\ segCalls[p] = 1 /\ incs[p] = 1 /\ decs[p] = 1
    /\ pc[q] = "done" /\ cause[q] = SegmentationError /\ segCalls[q] = 1 /\ ~returned[q]
         /\ decs[q] = 1

\* C22: when every awaited call eventually resolves or rejects, an admitted
\* invocation eventually ends, having returned or thrown, with its slot released.
C22_AdmittedTerminates ==
  \A p \in Procs :
    (incs[p] > decs[p]) ~>
      (/\ pc[p] = "done"
       /\ decs[p] = incs[p]
       /\ (returned[p] \/ err[p] # NoErr))

\* C22 witness: an invocation that waited on the segmentation has returned
\* and released, while another one is still admitted.
C22_Witness ==
  \E p, q \in Procs :
    /\ pc[p] = "done" /\ returned[p] /\ segCalls[p] = 1 /\ decs[p] = 1
    /\ pc[q] = "segment" /\ incs[q] = 1 /\ decs[q] = 0

\* C23: activeRemovals is the number of invocations admitted and not yet
\* released; it is 0 whenever no invocation is in flight, and a call made
\* then is never answered Busy.
C23_CounterIsAdmitted ==
  /\ [](/\ activeRemovals = Cardinality({p \in Procs : incs[p] > decs[p]})
        /\ (\A p \in Procs : pc[p] \in {"idle", "done"}) => activeRemovals = 0)
  /\ [][\A p \in Procs :
          (/\ \A q \in Procs : pc[q] \in {"idle", "done"}
           /\ pc[p] = "idle" /\ pc'[p] # "idle")
            => err'[p].message # BusyMessage]_vars

\* C23 witness: one invocation returned, one failed and one was rejected, none
\* is in flight and the counter is back at 0.
C23_Witness ==
  /\ activeRemovals = 0
  /\ \E p, q, r \in Procs :
       /\ pc[p] = "done" /\ returned[p]
       /\ pc[q] = "done" /\ cause[q] = SharpError
       /\ pc[r] = "done" /\ err[r] = BusyErr

\* C24: a call is rejected exactly when the counter is at the limit at the
\* moment of the call, whoever calls and whatever happened before; a rejected
\* call ends with Busy in the step of the call, and is never admitted later.
C24_NotAQueue ==
  [][\A p \in Procs :
       /\ (pc[p] = "idle" /\ pc'[p] # "idle") =>
            /\ (err'[p] = BusyErr) <=> (activeRemovals >= 2)
            /\ err'[p] = BusyErr => (pc'[p] = "done" /\ incs'[p] = 0)
            /\ activeRemovals < 2 => incs'[p] = 1
       /\ err[p] = BusyErr =>
            /\ pc'[p] = "done" /\ err'[p] = BusyErr
            /\ incs'[p] = 0 /\ ~returned'[p]]_vars

\* C24 witness: a caller was rejected, then a slot came free, and the rejected
\* caller is still ended with Busy while the slot stays free.
C24_Witness ==
  \E p, q \in Procs :
    /\ err[p] = BusyErr /\ pc[p] = "done" /\ incs[p] = 0
    /\ lastGate = "freed"
    /\ pc[q] = "done" /\ decs[q] = 1
    /\ activeRemovals = 1

\* C25: the counter goes down only in the step in which an admitted invocation
\* ends; while two admitted invocations stay waiting on the segmentation the
\* counter stays at 2 and every call made is answered Busy.
C25_NoTimeout ==
  [][/\ activeRemovals' < activeRemovals =>
          \E p \in Procs :
            /\ incs[p] > decs[p]
            /\ pc[p] \in Stages /\ pc'[p] = "done"
            /\ decs'[p] = decs[p] + 1
            /\ activeRemovals' = activeRemovals - 1
     /\ (\E p, q \in Procs :
           /\ p # q
           /\ pc[p] = "segment" /\ pc'[p] = "segment"
           /\ pc[q] = "segment" /\ pc'[q] = "segment") =>
          /\ activeRemovals = 2 /\ activeRemovals' = 2
          /\ \A r \in Procs :
               (pc[r] = "idle" /\ pc'[r] # "idle") => err'[r] = BusyErr]_vars

\* C25 witness: two invocations wait on the segmentation and a third caller
\* has been answered Busy.
C25_Witness ==
  \E p, q, r \in Procs :
    /\ p # q
    /\ pc[p] = "segment" /\ pc[q] = "segment"
    /\ err[r] = BusyErr
    /\ activeRemovals = 2

\* removeBackgroundLocal was entered by the invocation: it was admitted, or
\* it threw (Busy included).
Called(p) == incs[p] > 0 \/ cause[p] # NoErr

\* C27: a remove-background request without a file, with a type outside
\* png/jpeg/jpg/webp or with an empty file is answered without a call of
\* removeBackgroundLocal: the counter is as before and the request was never
\* admitted, so it takes no slot from another request.
C27_ValidationBeforeGate ==
  /\ [](\A p \in Procs :
          (origin[p] = "route" /\ pc[p] = "done" /\
           err[p].message \in {NoFileMessage, BadFormatMessage, EmptyMessage}) =>
             /\ ~Called(p)
             /\ ~readInput[p]
             /\ status[p] = 400)
  /\ [][\A p \in Procs :
          (origin'[p] = "route" /\ pc[p] # "done" /\ pc'[p] = "done" /\
           err'[p].message \in {NoFileMessage, BadFormatMessage, EmptyMessage}) =>
             /\ activeRemovals' = activeRemovals
             /\ incs' = incs /\ decs' = decs]_vars

\* C27 witness: an empty upload was refused by the route while the gate was
\* full, and the two admitted requests still hold the two slots.
C27_Witness ==
  \E p \in Procs :
    /\ origin[p] = "route" /\ pc[p] = "done"
    /\ err[p] = BGError(EmptyMessage)
    /\ ~Called(p)
    /\ activeRemovals = 2

\* C28: in every answer of the duplicate endpoint meta.count is the number of
\* duplicates made: the number of results when not zipped, the number of
\* files in the archive when zipped. (metaCount is meta.count in tenths.)
C28_MetaCountIsProduced ==
  (req.op = "duplicate" /\ resp.status = 200) =>
    /\ resp.metaCount = 10 * Len(resp.duplicates)
    /\ resp.zipped => resp.metaCount = 10 * Len(resp.archive)
    /\ ~resp.zipped => resp.metaCount = 10 * Len(resp.results)

\* C29: activeRemovals is never negative, and every release finds the counter
\* at 1 or more and lowers it by exactly one (for an empty buffer the release
\* follows the increment in the same step, which leaves the counter as it was).
C29_ReleaseLowersByOne ==
  /\ [](activeRemovals >= 0)
  /\ [][\A p \in Procs :
          decs'[p] # decs[p] =>
            /\ decs'[p] = decs[p] + 1
            /\ IF incs'[p] # incs[p]
               THEN activeRemovals' = activeRemovals
               ELSE /\ activeRemovals >= 1
                    /\ activeRemovals' = activeRemovals - 1]_vars

\* C29 witness: two invocations have released, one of them from a full gate,
\* and the counter is at 0.
C29_Witness ==
  \E p, q \in Procs :
    /\ p # q
    /\ decs[p] = 1 /\ decs[q] = 1 /\ segCalls[p] = 1 /\ segCalls[q] = 1
    /\ activeRemovals = 0
    /\ \E r \in Procs : err[r] = BusyErr

\* C26: compressImage, convertToPng and duplicateImage leave activeRemovals
\* and every invocation of the removal as they are, and give the same result
\* in every state of the gate: they are never answered Busy.
C26_ImageOpsIgnoreGate ==
  /\ [][(req' # req \/ resp' # resp) =>
          /\ activeRemovals' = activeRemovals
          /\ incs' = incs /\ decs' = decs
          /\ pc' = pc /\ err' = err]_vars
  /\ [](/\ (req.op = "compressImage" /\ req.input.mime = "image/png") =>
             /\ resp.thrown = NoThrow
             /\ Len(resp.out) = 1 /\ resp.out[1].mime = "image/webp"
        /\ (req.op = "compressImage" /\ req.input.mime = "image/gif") =>
             (resp.thrown = UnsupportedError /\ resp.out = <<>>)
        /\ req.op = "convertToPng" =>
             /\ resp.thrown = NoThrow
             /\ Len(resp.out) = 1 /\ resp.out[1].mime = "image/png"
        /\ req.op = "duplicateImage" =>
             (resp.thrown = NoThrow /\ Len(resp.out) = 2))

\* C26 witness: compressImage returned its image while the gate was full and a
\* removal had just been answered Busy.
C26_Witness ==
  /\ activeRemovals = 2
  /\ \E p \in Procs : err[p] = BusyErr
  /\ req.op = "compressImage"
  /\ resp.thrown = NoThrow
  /\ Len(resp.out) = 1

\* C30: every run of handleGenerate ends with showScan = false and a state
\* other than processing. Without a file it sets the error, sends no request
\* and leaves the state as it is; with a file it sends one request and ends in
\* completed on a successful response, in uploaded or idle (with the error
\* set) on an error response or a thrown error.
C30_GenerateEnds ==
  [][/\ (runs' # runs /\ files = 0) =>
          /\ error' = "Upload an image to get started."
          /\ sent' = sent
          /\ state' = state
          /\ gen' = "none"
          /\ showScan' = FALSE /\ state' # "processing"
     /\ (runs' # runs /\ files > 0) =>
          /\ sent' = sent + 1
          /\ gen' = "fetch"
     /\ (gen = "fetch" /\ gen' = "none") =>
          /\ showScan' = FALSE /\ state' # "processing"
          /\ sent' = sent
          /\ IF outcome' = "ok"
             THEN state' = "completed" /\ error' = "null"
             ELSE state' \in {"uploaded", "idle"} /\ error' # "null"]_vars

\* C30 witness: a run without a file ended with the error set, after an
\* earlier run had sent its request and ended on an error response.
C30_Witness ==
  /\ runs = 2 /\ sent = 1
  /\ outcome = "error response"
  /\ files = 0
  /\ error = "Upload an image to get started."
  /\ state = "uploaded"
  /\ ~showScan
  /\ gen = "none"

TypeOK ==
  /\ activeRemovals \in Nat
  /\ pc \in [Procs -> {"idle", "read", "done"} \cup Stages]

====
